---------------------------- MODULE Spec2Model ----------------------------
(***************************************************************************)
(* Model of the relay HTTP(S) frontend server of iroh-net                  *)
(* (src/iroh-net/src/relay/http/server.rs): the builder's spawn, the       *)
(* supervisor task with its accept loop and shutdown sequence, the         *)
(* per-connection tasks, the routing service and the upgrade negotiation   *)
(* of the relay endpoint with its detached handoff continuation.           *)
(***************************************************************************)
EXTENDS Integers, Sequences, FiniteSets, TLC

(***************************************************************************)
(* Bounds of the model.                                                    *)
(***************************************************************************)
\* Number of client connections that may be opened against the listener.
MaxConns == 2
\* Number of shutdown() calls (on the Server or on a ServerHandle clone).
MaxShutdownCalls == 2
\* Number of requests the HTTP engine parses on one (keep-alive) connection.
MaxRequests == 2

(***************************************************************************)
(* Option<T>: None is the empty sequence, Some(v) the one-element one.     *)
(***************************************************************************)
None == <<>>
Some(v) == <<v>>
IsSome(o) == Len(o) = 1
Unwrap(o) == o[1]

(***************************************************************************)
(* Constants of crate::relay::http.                                        *)
(***************************************************************************)
HTTP_UPGRADE_PROTOCOL == "iroh derp http"
WEBSOCKET_UPGRADE_PROTOCOL == "websocket"
SUPPORTED_WEBSOCKET_VERSION == "13"
RELAY_PATH == "/relay"
LEGACY_RELAY_PATH == "/derp"
\* The GUID of RFC 6455 that tungstenite's derive_accept_key appends to the key.
WS_GUID == "258EAFA5-E914-47DA-95CA-C5AB0DC85B11"

(***************************************************************************)
(* Status codes (hyper::StatusCode).                                       *)
(***************************************************************************)
SWITCHING_PROTOCOLS == 101
BAD_REQUEST == 400
NOT_FOUND == 404

(***************************************************************************)
(* Header names.  http::HeaderName normalises every name to lower case;    *)
(* HeaderName gives the normalised form of the names the code uses.        *)
(***************************************************************************)
UPGRADE == "upgrade"
CONNECTION == "connection"
HeaderName(s) ==
    CASE s = "Sec-WebSocket-Key" -> "sec-websocket-key"
      [] s = "Sec-WebSocket-Version" -> "sec-websocket-version"
      [] s = "Sec-WebSocket-Accept" -> "sec-websocket-accept"
      [] OTHER -> s

(***************************************************************************)
(* Bytes of a string (str::as_bytes / HeaderValue::as_bytes), for the      *)
(* ASCII letters, digits and the punctuation header values here use.       *)
(***************************************************************************)
AsciiDigits == "0123456789"
AsciiUpper == "ABCDEFGHIJKLMNOPQRSTUVWXYZ"
AsciiLower == "abcdefghijklmnopqrstuvwxyz"
AsciiPunct == (" " :> 32) @@ ("+" :> 43) @@ ("-" :> 45) @@ ("/" :> 47) @@ ("=" :> 61)
Chars(str) == {SubSeq(str, i, i) : i \in 1..Len(str)}
IndexIn(str, ch) == CHOOSE i \in 1..Len(str) : SubSeq(str, i, i) = ch
AsciiCode ==
    [ch \in Chars(AsciiDigits) \cup Chars(AsciiUpper) \cup Chars(AsciiLower)
            \cup DOMAIN AsciiPunct |->
        IF ch \in Chars(AsciiDigits) THEN 47 + IndexIn(AsciiDigits, ch)
        ELSE IF ch \in Chars(AsciiUpper) THEN 64 + IndexIn(AsciiUpper, ch)
        ELSE IF ch \in Chars(AsciiLower) THEN 96 + IndexIn(AsciiLower, ch)
        ELSE AsciiPunct[ch]]
as_bytes(s) == [i \in 1..Len(s) |-> AsciiCode[SubSeq(s, i, i)]]

(***************************************************************************)
(* 32-bit word arithmetic for SHA-1.  A word is <<hi, lo>>, two 16-bit     *)
(* halves (TLC's integers are 32-bit signed).                              *)
(***************************************************************************)
Pow2(n) == 2 ^ n
Half == Pow2(16)
BitTable(f(_, _)) ==
    [a \in 0..15 |-> [b \in 0..15 |->
        LET bit(x, i) == (x \div Pow2(i)) % 2
        IN  f(bit(a, 0), bit(b, 0)) + (2 * f(bit(a, 1), bit(b, 1)))
            + (4 * f(bit(a, 2), bit(b, 2))) + (8 * f(bit(a, 3), bit(b, 3)))]]
XorBit(x, y) == (x + y) % 2
AndBit(x, y) == x * y
OrBit(x, y) == (x + y) - (x * y)
XorNibble == BitTable(XorBit)
AndNibble == BitTable(AndBit)
OrNibble == BitTable(OrBit)
HalfOp(tab, a, b) ==
    tab[a % 16][b % 16]
        + (16 * tab[(a \div 16) % 16][(b \div 16) % 16])
        + (256 * tab[(a \div 256) % 16][(b \div 256) % 16])
        + (4096 * tab[a \div 4096][b \div 4096])
Xor32(a, b) == <<HalfOp(XorNibble, a[1], b[1]), HalfOp(XorNibble, a[2], b[2])>>
And32(a, b) == <<HalfOp(AndNibble, a[1], b[1]), HalfOp(AndNibble, a[2], b[2])>>
Or32(a, b) == <<HalfOp(OrNibble, a[1], b[1]), HalfOp(OrNibble, a[2], b[2])>>
Not32(a) == <<Half - 1 - a[1], Half - 1 - a[2]>>
Add32(a, b) ==
    LET lo == a[2] + b[2]
    IN  <<(a[1] + b[1] + (lo \div Half)) % Half, lo % Half>>
Rotl32(a, n) ==
    LET x == IF n >= 16 THEN <<a[2], a[1]>> ELSE a
        m == n % 16
    IN  IF m = 0 THEN x
        ELSE <<((x[1] * Pow2(m)) % Half) + (x[2] \div Pow2(16 - m)),
               ((x[2] * Pow2(m)) % Half) + (x[1] \div Pow2(16 - m))>>

(***************************************************************************)
(* SHA-1 (FIPS 180-4) of a byte sequence, as a sequence of 20 bytes.       *)
(***************************************************************************)
Sha1Pad(msg) ==
    LET len == Len(msg)
        zeros == (119 - (len % 64)) % 64
        bits == 8 * len
    IN  msg \o <<128>> \o [i \in 1..zeros |-> 0] \o <<0, 0, 0, 0>>
            \o [i \in 1..4 |-> (bits \div Pow2(8 * (4 - i))) % 256]
Sha1Block(padded, k) ==
    [t \in 1..16 |->
        LET o == 64 * k + 4 * (t - 1)
        IN  <<(padded[o + 1] * 256) + padded[o + 2], (padded[o + 3] * 256) + padded[o + 4]>>]
RECURSIVE Sha1Schedule(_)
Sha1Schedule(w) ==
    IF Len(w) = 80 THEN w
    ELSE LET t == Len(w) + 1
             x == Xor32(Xor32(w[t - 3], w[t - 8]), Xor32(w[t - 14], w[t - 16]))
         IN  Sha1Schedule(Append(w, Rotl32(x, 1)))
Sha1F(t, b, c, d) ==
    IF t <= 20 THEN Or32(And32(b, c), And32(Not32(b), d))
    ELSE IF t <= 40 THEN Xor32(Xor32(b, c), d)
    ELSE IF t <= 60 THEN Or32(Or32(And32(b, c), And32(b, d)), And32(c, d))
    ELSE Xor32(Xor32(b, c), d)
Sha1K(t) ==
    IF t <= 20 THEN <<23170, 31129>>
    ELSE IF t <= 40 THEN <<28377, 60321>>
    ELSE IF t <= 60 THEN <<36635, 48348>>
    ELSE <<51810, 49622>>
Sha1Round(w, t, s) ==
    LET tmp == Add32(Add32(Add32(Rotl32(s[1], 5), Sha1F(t, s[2], s[3], s[4])),
                           Add32(s[5], Sha1K(t))), w[t])
    IN  <<tmp, s[1], Rotl32(s[2], 30), s[3], s[4]>>
RECURSIVE Sha1Rounds(_, _, _)
Sha1Rounds(w, t, s) ==
    \* Len(s) = 5 always holds; testing it makes TLC compute each round's state
    \* before the next round starts.
    IF t > 80 \/ Len(s) # 5 THEN s
    ELSE Sha1Rounds(w, t + 1, Sha1Round(w, t, s))
RECURSIVE Sha1Blocks(_, _, _)
Sha1Blocks(padded, k, h) ==
    IF 64 * k >= Len(padded) THEN h
    ELSE LET s == Sha1Rounds(Sha1Schedule(Sha1Block(padded, k)), 1, h)
         IN  Sha1Blocks(padded, k + 1, [i \in 1..5 |-> Add32(h[i], s[i])])
Sha1(msg) ==
    LET h == Sha1Blocks(Sha1Pad(msg), 0, <<<<26437, 8961>>, <<61389, 43913>>, <<39098, 56574>>, <<4146, 21622>>, <<50130, 57840>>>>)
    IN  [i \in 1..20 |->
            LET half == h[((i - 1) \div 4) + 1][(((i - 1) % 4) \div 2) + 1]
            IN  IF i % 2 = 1 THEN half \div 256 ELSE half % 256]

(***************************************************************************)
(* Standard base64 with padding (data_encoding::BASE64), as a string.      *)
(***************************************************************************)
Base64Alphabet == "ABCDEFGHIJKLMNOPQRSTUVWXYZabcdefghijklmnopqrstuvwxyz0123456789+/"
Base64Char(n) == SubSeq(Base64Alphabet, n + 1, n + 1)
RECURSIVE Base64(_)
Base64(bytes) ==
    IF Len(bytes) = 0 THEN ""
    ELSE IF Len(bytes) = 1 THEN
        Base64Char(bytes[1] \div 4) \o Base64Char((bytes[1] % 4) * 16) \o "=="
    ELSE IF Len(bytes) = 2 THEN
        Base64Char(bytes[1] \div 4)
            \o Base64Char(((bytes[1] % 4) * 16) + (bytes[2] \div 16))
            \o Base64Char((bytes[2] % 16) * 4) \o "="
    ELSE
        Base64Char(bytes[1] \div 4)
            \o Base64Char(((bytes[1] % 4) * 16) + (bytes[2] \div 16))
            \o Base64Char(((bytes[2] % 16) * 4) + (bytes[3] \div 64))
            \o Base64Char(bytes[3] % 64)
            \o Base64(SubSeq(bytes, 4, Len(bytes)))

(***************************************************************************)
(* tungstenite::handshake::derive_accept_key: base64(sha1(key ++ GUID)).   *)
(* AcceptKeys holds the digests of the keys of the model, computed once.   *)
(***************************************************************************)
SampleKey == "dGhlIHNhbXBsZSBub25jZQ=="
OtherKey == "AQIDBAUGBwgJCgsMDQ4PEA=="
Sha1Base64(bytes) == Base64(Sha1(bytes))
AcceptKeys ==
    [k \in {as_bytes(SampleKey), as_bytes(OtherKey)} |-> Sha1Base64(k \o as_bytes(WS_GUID))]
derive_accept_key(key_bytes) ==
    IF key_bytes \in DOMAIN AcceptKeys THEN AcceptKeys[key_bytes]
    ELSE Sha1Base64(key_bytes \o as_bytes(WS_GUID))

(***************************************************************************)
(* Protocol: the HTTP upgrade protocol used for relaying.                  *)
(***************************************************************************)
Protocol == {"Relay", "Websocket"}
upgrade_header(p) ==
    IF p = "Relay" THEN HTTP_UPGRADE_PROTOCOL ELSE WEBSOCKET_UPGRADE_PROTOCOL
\* A comparison of the header with the tokens that ignores the ASCII case.
to_ascii_lowercase(bytes) ==
    [i \in DOMAIN bytes |-> IF bytes[i] \in 65..90 THEN bytes[i] + 32 ELSE bytes[i]]
ParseHeaderIgnoresCase(header) ==
    IF to_ascii_lowercase(as_bytes(header)) = as_bytes(upgrade_header("Relay"))
    THEN Some("Relay")
    ELSE IF to_ascii_lowercase(as_bytes(header)) = as_bytes(upgrade_header("Websocket"))
    THEN Some("Websocket")
    ELSE None
\* Protocol::parse_header: header.as_bytes() is matched against the two tokens.
parse_header(header) ==
    IF as_bytes(header) = as_bytes(upgrade_header("Relay")) THEN Some("Relay")
    ELSE IF as_bytes(header) = as_bytes(upgrade_header("Websocket")) THEN Some("Websocket")
    ELSE None

(***************************************************************************)
(* http::response::Builder and the bodies.  A header map is the sequence   *)
(* of its <<name, value>> entries; Builder::header appends an entry.       *)
(***************************************************************************)
body_empty == ""
body_full(content) == content
ResponseBuilder == [status |-> 200, headers |-> <<>>]
WithHeader(builder, name, value) ==
    [builder EXCEPT !.headers = Append(@, <<HeaderName(name), value>>)]
WithStatus(builder, code) == [builder EXCEPT !.status = code]
WithBody(builder, content) ==
    [status |-> builder.status, headers |-> builder.headers, body |-> content]
RECURSIVE WithHeaders(_, _)
WithHeaders(builder, map) ==
    IF map = <<>> THEN builder
    ELSE WithHeaders(WithHeader(builder, Head(map)[1], Head(map)[2]), Tail(map))
\* The values a response carries under a header name.
HeaderValues(response, name) ==
    {response.headers[i][2] : i \in {j \in 1..Len(response.headers) :
                                        response.headers[j][1] = HeaderName(name)}}
HasHeader(response, name, value) == value \in HeaderValues(response, name)
\* The (name, value) entries of a header map, as HeaderMap::iter yields them.
Pairs(map) == {map[i] : i \in 1..Len(map)}
\* HeaderMap::insert: the entry replaces every entry the map holds for the name.
HeaderMapInsert(map, name, value) ==
    SelectSeq(map, LAMBDA e : e[1] # HeaderName(name)) \o <<<<HeaderName(name), value>>>>

(***************************************************************************)
(* Outcome of a service call: the response, or the responder's error; and  *)
(* the protocol of the handoff continuation the call spawned, if any.      *)
(***************************************************************************)
Ok(response, spawned) == [ok |-> TRUE, resp |-> response, spawn |-> spawned]
Err == [ok |-> FALSE, resp |-> None, spawn |-> None]

(***************************************************************************)
(* A HyperHandler is a user function of the request and a response         *)
(* builder; a handler here either fails or sets a status and a body on     *)
(* the builder it was given.                                               *)
(***************************************************************************)
CallHandler(handler, req, builder) ==
    IF handler.fail THEN Err
    ELSE Ok(WithBody(WithStatus(builder, handler.status), body_full(handler.body)), None)

(***************************************************************************)
(* <ClientConnHandler as Service>::call, in the order of its code: the     *)
(* builder with the default headers, the protocol of the Upgrade header,   *)
(* the websocket header checks, the spawned continuation and the 101.      *)
(***************************************************************************)
DefaultBuilder(default_headers) == WithHeaders(ResponseBuilder, default_headers)
\* A missing Upgrade header taken for the relay protocol.
UpgradeProtocolDefaultsToRelay(req) ==
    IF IsSome(req.upgrade) THEN parse_header(Unwrap(req.upgrade)) ELSE Some("Relay")
\* req.headers().get(UPGRADE).and_then(Protocol::parse_header)
UpgradeProtocol(req) ==
    IF IsSome(req.upgrade) THEN parse_header(Unwrap(req.upgrade)) ELSE None
BadRequest(builder) == WithBody(WithStatus(builder, BAD_REQUEST), body_empty)
\* The rejection of a version without the advertised supported one.
UnsupportedVersionNotAdvertised(builder) ==
    WithBody(WithStatus(builder, BAD_REQUEST), body_empty)
UnsupportedVersion(builder) ==
    WithBody(WithHeader(WithStatus(builder, BAD_REQUEST),
                        "Sec-WebSocket-Version", SUPPORTED_WEBSOCKET_VERSION),
             body_empty)
\* The websocket header checks applied to every protocol.
HeadersCheckedForAnyProtocol(protocol) == TRUE
\* if protocol == Protocol::Websocket
HeadersChecked(protocol) == protocol = "Websocket"
\* The early return of the websocket header checks: Some(response), or None
\* when the request passes them.
WebsocketReject(builder, req) ==
    IF ~IsSome(req.key) THEN Some(BadRequest(builder))
    ELSE IF ~IsSome(req.version) THEN Some(BadRequest(builder))
    ELSE IF as_bytes(Unwrap(req.version)) # as_bytes(SUPPORTED_WEBSOCKET_VERSION)
    THEN Some(UnsupportedVersion(builder))
    ELSE None
\* Some((key, version)) for the websocket protocol, None for the relay one.
WebsocketHeaders(protocol, req) ==
    IF protocol = "Websocket" THEN Some(<<Unwrap(req.key), Unwrap(req.version)>>) ELSE None
\* The accept key derived from the version header instead of the key.
SwitchingProtocolsHashesVersion(builder, protocol, websocket_headers) ==
    LET switching == WithHeader(WithStatus(builder, SWITCHING_PROTOCOLS),
                                UPGRADE, upgrade_header(protocol))
    IN  IF IsSome(websocket_headers)
        THEN WithBody(
                WithHeader(
                    WithHeader(switching, "Sec-WebSocket-Accept",
                               derive_accept_key(as_bytes(Unwrap(websocket_headers)[2]))),
                    CONNECTION, "upgrade"),
                body_full("switching to websocket protocol"))
        ELSE WithBody(switching, body_empty)
\* The Connection header set before the protocols part ways.
SwitchingProtocolsAlwaysConnection(builder, protocol, websocket_headers) ==
    LET switching == WithHeader(WithHeader(WithStatus(builder, SWITCHING_PROTOCOLS),
                                           UPGRADE, upgrade_header(protocol)),
                                CONNECTION, "upgrade")
    IN  IF IsSome(websocket_headers)
        THEN WithBody(
                WithHeader(switching, "Sec-WebSocket-Accept",
                           derive_accept_key(as_bytes(Unwrap(websocket_headers)[1]))),
                body_full("switching to websocket protocol"))
        ELSE WithBody(switching, body_empty)
SwitchingProtocols(builder, protocol, websocket_headers) ==
    LET switching == WithHeader(WithStatus(builder, SWITCHING_PROTOCOLS),
                                UPGRADE, upgrade_header(protocol))
    IN  IF IsSome(websocket_headers)
        THEN WithBody(
                WithHeader(
                    WithHeader(switching, "Sec-WebSocket-Accept",
                               derive_accept_key(as_bytes(Unwrap(websocket_headers)[1]))),
                    CONNECTION, "upgrade"),
                body_full("switching to websocket protocol"))
        ELSE WithBody(switching, body_empty)
ClientConnHandlerCall(default_headers, req) ==
    LET builder == DefaultBuilder(default_headers)
        protocol == UpgradeProtocol(req)
    IN  IF ~IsSome(protocol) THEN Ok(BadRequest(builder), None)
        ELSE IF HeadersChecked(Unwrap(protocol)) /\ IsSome(WebsocketReject(builder, req))
        THEN Ok(Unwrap(WebsocketReject(builder, req)), None)
        ELSE \* tokio::task::spawn of the continuation, then the 101 response
             Ok(SwitchingProtocols(builder, Unwrap(protocol),
                                   WebsocketHeaders(Unwrap(protocol), req)),
                protocol)

(***************************************************************************)
(* Inner::default_response and <RelayService as Service>::call.            *)
(***************************************************************************)
default_response(inner) == WithHeaders(ResponseBuilder, inner.headers)
\* A service that consults only the route map.
RoutesOnly(req) == FALSE
\* A relay endpoint that takes every method.
RelayPathAnyMethod(req) == req.path \in {LEGACY_RELAY_PATH, RELAY_PATH}
\* matches!((req.method(), req.uri().path()), (&Method::GET, LEGACY_RELAY_PATH | RELAY_PATH))
IsRelayRequest(req) == req.method = "GET" /\ req.path \in {LEGACY_RELAY_PATH, RELAY_PATH}
RelayServiceCall(inner, req) ==
    IF IsRelayRequest(req)
    THEN IF inner.relay_handler.kind = "Override"
         THEN CallHandler(inner.relay_handler.f, req, default_response(inner))
         ELSE ClientConnHandlerCall(inner.relay_handler.default_headers, req)
    ELSE IF <<req.method, req.path>> \in DOMAIN inner.handlers
    THEN CallHandler(inner.handlers[<<req.method, req.path>>], req, default_response(inner))
    ELSE IF inner.not_found_fn.kind = "Default"
    THEN \* the closure built by ServerBuilder::spawn
         Ok(WithBody(WithStatus(WithHeaders(default_response(inner), inner.not_found_fn.h),
                                NOT_FOUND),
                     body_full("Not Found")), None)
    ELSE CallHandler(inner.not_found_fn.f, req, default_response(inner))


(***************************************************************************)
(* Inputs: the builder configurations and the requests of the clients.     *)
(***************************************************************************)
ConnIds == 1..MaxConns
OkHandler == [fail |-> FALSE, status |-> 200, body |-> "ok"]
FailingHandler == [fail |-> TRUE, status |-> 200, body |-> ""]
DisabledHandler == [fail |-> FALSE, status |-> 200, body |-> "relay disabled"]
\* The routes added with ServerBuilder::request_handler.
UserRoutes == (<<"GET", "/health">> :> OkHandler) @@ (<<"GET", "/fail">> :> FailingHandler)
\* The header map given to ServerBuilder::headers.
ServerHeaders == <<<<"x-relay", "a">>>>
TlsAcceptor == {"LetsEncrypt", "Manual"}
Builders ==
    [secret_key : BOOLEAN,
     tls_config : {None} \cup {Some(a) : a \in TlsAcceptor},
     relay_override : {None, Some(DisabledHandler)},
     headers : {ServerHeaders},
     handlers : {UserRoutes},
     not_found_fn : {None}]
Request(method, path, upgrade, key, version) ==
    [method |-> method, path |-> path, upgrade |-> upgrade, key |-> key, version |-> version]
\* The requests of the clients of the running server.
ClientRequests ==
    {Request("GET", RELAY_PATH, Some(HTTP_UPGRADE_PROTOCOL), None, None),
     Request("GET", LEGACY_RELAY_PATH, Some(WEBSOCKET_UPGRADE_PROTOCOL),
             Some(SampleKey), Some(SUPPORTED_WEBSOCKET_VERSION)),
     Request("GET", RELAY_PATH, None, None, None),
     Request("GET", "/fail", None, None, None)}

(***************************************************************************)
(* State.                                                                  *)
(***************************************************************************)
VARIABLES
    builder,        \* the ServerBuilder's fields
    given,          \* the (name, value) pairs passed to ServerBuilder::headers so far
    spawned,        \* ServerBuilder::spawn: "Pending", "Ok" (a Server) or "Err"
    inner,          \* the RelayService's Inner, shared by the connection tasks
    relay_server,   \* ServerState.server, the relay backend: "None", "Running",
                    \* "Closing" (close requested) or "Closed"
    cancelled,      \* the CancellationToken cancel_server_loop
    sup,            \* where the supervisor task of ServerState::serve is
    set,            \* the JoinSet of the connection tasks
    conn,           \* per connection: its socket and its connection task
    req,            \* per connection: the last request the HTTP engine parsed
    resp,           \* per connection: the response to that request
    handoff,        \* per connection: the continuation spawned by the upgrade
    events,         \* the supervisor's accepts and shutdown steps, in order
    shutdown_calls  \* number of shutdown() calls made

vars == <<builder, given, spawned, inner, relay_server, cancelled, sup, set, conn, req, resp,
          handoff, events, shutdown_calls>>
config_vars == <<builder, given, spawned, inner>>
conn_vars == <<conn, req, resp, handoff>>

NoInner ==
    [relay_handler |-> [kind |-> "Unset"], handlers |-> <<>>,
     not_found_fn |-> [kind |-> "Unset"], headers |-> <<>>]
NoConn == [st |-> "Idle", transport |-> "None", nreq |-> 0, abort |-> FALSE]
\* A continuation, and the byte streams of the transport it waits for: sent is
\* what the peer wrote after its upgrade request, wire what of it the server
\* has not read yet, read_buf what the HTTP engine read of it, read what the
\* relay session read, out what the peer received from the 101 on.
NoHandoff ==
    [st |-> "None", protocol |-> None, read_buf |-> "", accepted |-> None,
     sent |-> "", wire |-> "", read |-> "", out |-> <<>>]
\* The bytes a peer writes after its upgrade request, in this order.
PeerBytes == "xy"
IsPrefix(p, str) == Len(p) <= Len(str) /\ SubSeq(str, 1, Len(p)) = p
\* The connection of a task that ended with the given state: the future and
\* the transport it owned are dropped.
Ended(k, state) == [k EXCEPT !.st = state, !.transport = "None", !.abort = FALSE]

\* A connection task that was spawned and has not ended.
TaskStates == {"Tls", "Http", "Responding101"}
EndStates == {"Ok", "Err", "Aborted"}

(***************************************************************************)
(* ServerBuilder::spawn, with ServerState::serve: the ensure!, the relay   *)
(* backend and the relay handler binding, the default not-found handler,   *)
(* the service, the bind and the spawn of the supervisor task.             *)
(***************************************************************************)
\* A spawn that prefers the override to the secret key.
OverrideWins(b) ==
    IF IsSome(b.relay_override)
    THEN [kind |-> "Override", f |-> Unwrap(b.relay_override)]
    ELSE [kind |-> "ConnHandler", default_headers |-> b.headers]
\* if let Some(secret_key) = self.secret_key: the ClientConnHandler of a new
\* relay server, and otherwise the override.
RelayHandlerOf(b) ==
    IF b.secret_key
    THEN [kind |-> "ConnHandler", default_headers |-> b.headers]
    ELSE [kind |-> "Override", f |-> Unwrap(b.relay_override)]
\* A spawn that always installs the default not-found handler.
NotFoundAlwaysDefault(b) == [kind |-> "Default", h |-> b.headers]
NotFoundFnOf(b) ==
    IF IsSome(b.not_found_fn)
    THEN [kind |-> "User", f |-> Unwrap(b.not_found_fn)]
    ELSE [kind |-> "Default", h |-> b.headers]
InnerOf(b) ==
    [relay_handler |-> RelayHandlerOf(b), handlers |-> b.handlers,
     not_found_fn |-> NotFoundFnOf(b), headers |-> b.headers]
\* An ensure! that insists on the secret key.
EnsureSecretKeyOnly(b) == b.secret_key
SpawnEnsure(b) == b.secret_key \/ IsSome(b.relay_override)
Spawn(bind_ok) ==
    /\ spawned = "Pending"
    /\ IF ~SpawnEnsure(builder)
       THEN /\ spawned' = "Err"
            /\ UNCHANGED <<inner, relay_server, sup, events>>
       ELSE /\ inner' = InnerOf(builder)
            /\ IF bind_ok
               THEN /\ spawned' = "Ok"
                    /\ relay_server' = IF builder.secret_key THEN "Running" ELSE "None"
                    /\ sup' = "Select"
                    /\ events' = Append(events, "bind")
               ELSE \* TcpListener::bind failed: the relay backend is dropped
                    /\ spawned' = "Err"
                    /\ relay_server' = IF builder.secret_key THEN "Closed" ELSE "None"
                    /\ sup' = "NotStarted"
                    /\ UNCHANGED events
    /\ UNCHANGED <<builder, given, cancelled, set, conn_vars, shutdown_calls>>

(***************************************************************************)
(* Server::shutdown and ServerHandle::shutdown: cancel the token.          *)
(***************************************************************************)
\* A shutdown that flips the flag instead of setting it.
CancelToggles(token) == ~token
Cancel(token) == TRUE
Shutdown ==
    /\ spawned = "Ok"
    /\ shutdown_calls < MaxShutdownCalls
    /\ shutdown_calls' = shutdown_calls + 1
    /\ cancelled' = Cancel(cancelled)
    /\ UNCHANGED <<config_vars, relay_server, sup, set, conn_vars, events>>

(***************************************************************************)
(* A client opens a TCP connection to the listener.                        *)
(***************************************************************************)
ClientConnect(c) ==
    /\ spawned = "Ok"
    /\ conn[c].st = "Idle"
    /\ conn' = [conn EXCEPT ![c].st = "Backlog"]
    /\ UNCHANGED <<config_vars, relay_server, cancelled, sup, set, req, resp, handoff,
                   events, shutdown_calls>>

(***************************************************************************)
(* The supervisor task of ServerState::serve: the biased select! of the    *)
(* accept loop polls the cancellation first and then the accept.           *)
(***************************************************************************)
AcceptReady == \E c \in ConnIds : conn[c].st = "Backlog"
\* A select! without `biased` ordering: a ready accept wins over the cancellation.
SelectAcceptFirst == cancelled /\ ~(\E c \in ConnIds : conn[c].st = "Backlog")
\* A loop that never looks at the cancellation.
SelectNeverCancelled == FALSE
SelectCancelled == cancelled
SupPollCancel ==
    /\ sup = "Select"
    /\ IF SelectCancelled
       THEN sup' = "Exited" /\ events' = Append(events, "loop_exit")
       ELSE sup' = "PollAccept" /\ UNCHANGED events
    /\ UNCHANGED <<config_vars, relay_server, cancelled, set, conn_vars, shutdown_calls>>
\* listener.accept() is ready with Ok((stream, peer_addr)).
SupAcceptOk(c) ==
    /\ sup = "PollAccept"
    /\ conn[c].st = "Backlog"
    /\ conn' = [conn EXCEPT ![c].st = "Accepted"]
    /\ sup' = "Spawn"
    /\ events' = Append(events, "accept")
    /\ UNCHANGED <<config_vars, relay_server, cancelled, set, req, resp, handoff,
                   shutdown_calls>>
\* An accept error that ends the loop.
AcceptErrLeavesLoop == "Exited"
\* listener.accept() is ready with Err(err): logged, and the loop goes on.
AfterAcceptErr == "Select"
SupAcceptErr ==
    /\ sup = "PollAccept"
    /\ sup' = AfterAcceptErr
    /\ UNCHANGED <<config_vars, relay_server, cancelled, set, conn_vars, events, shutdown_calls>>
\* Neither branch is ready: the task sleeps until one of them wakes it.
SupPark ==
    /\ sup = "PollAccept"
    /\ ~AcceptReady
    /\ sup' = "Parked"
    /\ UNCHANGED <<config_vars, relay_server, cancelled, set, conn_vars, events, shutdown_calls>>
SupWake ==
    /\ sup = "Parked"
    /\ cancelled \/ AcceptReady
    /\ sup' = "Select"
    /\ UNCHANGED <<config_vars, relay_server, cancelled, set, conn_vars, events, shutdown_calls>>
\* set.spawn of the connection task; the task starts in handle_connection.
\* A connection served without its handshake.
SkipsHandshake(tls_config) == "Http"
FirstState(tls_config) == IF IsSome(tls_config) THEN "Tls" ELSE "Http"
SupSpawn(c) ==
    /\ sup = "Spawn"
    /\ conn[c].st = "Accepted"
    /\ conn' = [conn EXCEPT ![c].st = FirstState(builder.tls_config),
                            ![c].transport = IF IsSome(builder.tls_config)
                                             THEN "None" ELSE "Plain"]
    /\ set' = set \cup {c}
    /\ sup' = "Select"
    /\ UNCHANGED <<config_vars, relay_server, cancelled, req, resp, handoff, events, shutdown_calls>>

(***************************************************************************)
(* The shutdown sequence of the supervisor task, after the loop: close     *)
(* the relay backend if there is one, then set.shutdown(), which aborts    *)
(* every task of the set and awaits them.                                  *)
(***************************************************************************)
\* A close step that does not look at the Option: it runs without a backend.
ClosesWithoutBackend == TRUE
\* if let Some(server) = server
HasRelayServer == relay_server # "None"
SupCloseRelay ==
    /\ sup = "Exited"
    /\ IF HasRelayServer
       THEN /\ relay_server' = "Closing"
            /\ sup' = "Closing"
            /\ events' = Append(events, "close_requested")
       ELSE /\ sup' = "Closed"
            /\ UNCHANGED <<relay_server, events>>
    /\ UNCHANGED <<config_vars, cancelled, set, conn_vars, shutdown_calls>>
\* The relay backend finishes closing: server.close().await returns.
RelayClosed ==
    /\ sup = "Closing"
    /\ relay_server = "Closing"
    /\ relay_server' = "Closed"
    /\ sup' = "Closed"
    /\ events' = Append(events, "close_completed")
    /\ UNCHANGED <<config_vars, cancelled, set, conn_vars, shutdown_calls>>
\* JoinSet::shutdown starts: abort_all().
\* server.close() without the .await: the drain starts while the backend closes.
DrainWithoutAwaitingClose == sup \in {"Closing", "Closed"}
CanStartDrain == sup = "Closed"
SupShutdownSet ==
    /\ CanStartDrain
    /\ conn' = [c \in ConnIds |->
                  IF c \in set /\ conn[c].st \in TaskStates
                  THEN [conn[c] EXCEPT !.abort = TRUE] ELSE conn[c]]
    /\ sup' = "Draining"
    /\ events' = Append(events, "drain_started")
    /\ UNCHANGED <<config_vars, relay_server, cancelled, set, req, resp, handoff,
                   shutdown_calls>>
\* JoinSet::shutdown ends: every task of the set has been joined.
\* abort_all() without awaiting the tasks.
SetNotAwaited == TRUE
SetJoined == \A c \in set : conn[c].st \in EndStates
SupDrained ==
    /\ sup = "Draining"
    /\ SetJoined
    /\ set' = {}
    /\ sup' = "Done"
    /\ events' = Append(events, "drain_completed")
    /\ UNCHANGED <<config_vars, relay_server, cancelled, conn_vars, shutdown_calls>>

(***************************************************************************)
(* The connection task: RelayService::handle_connection,                   *)
(* tls_serve_connection and serve_connection.                              *)
(***************************************************************************)
\* An aborted task is dropped at its suspension point.  Dropping the HTTP
\* connection before the upgrade completed fails the pending upgrade.
UpgradeFailed(h) == IF h.st = "Waiting" THEN [h EXCEPT !.st = "UpgradeErr"] ELSE h
TaskAborted(c) ==
    /\ conn[c].st \in TaskStates
    /\ conn[c].abort
    /\ conn' = [conn EXCEPT ![c] = Ended(@, "Aborted")]
    /\ handoff' = [handoff EXCEPT ![c] = UpgradeFailed(@)]
    /\ UNCHANGED <<config_vars, relay_server, cancelled, sup, set, req, resp, events, shutdown_calls>>
\* The outcomes of the acceptor: a TLS stream, an error, or (LetsEncrypt only)
\* a TLS-ALPN-01 validation request, which ends the task with Ok(()).
TlsOutcomes(acceptor) ==
    IF acceptor = "LetsEncrypt" THEN {"Stream", "Error", "AlpnValidation"}
    ELSE {"Stream", "Error"}
TlsAccept(c, outcome) ==
    /\ conn[c].st = "Tls"
    /\ ~conn[c].abort
    /\ outcome \in TlsOutcomes(Unwrap(builder.tls_config))
    /\ conn' = [conn EXCEPT ![c] =
                  CASE outcome = "Stream" -> [@ EXCEPT !.st = "Http", !.transport = "Tls"]
                    [] outcome = "Error" -> Ended(@, "Err")
                    [] outcome = "AlpnValidation" -> Ended(@, "Ok")]
    /\ UNCHANGED <<config_vars, relay_server, cancelled, sup, set, req, resp, handoff,
                   events, shutdown_calls>>
\* An engine that goes on parsing requests after a 101.
KeepsServingAfterSwitch(response) == "Http"
\* with_upgrades: after a 101 the engine writes the response and hands the
\* transport over; after any other response it waits for the next request.
AfterResponse(response) ==
    IF response.status = SWITCHING_PROTOCOLS THEN "Responding101" ELSE "Http"
\* The HTTP engine parsed request r and calls the service with it.
HttpRequest(c, r) ==
    /\ conn[c].st = "Http"
    /\ ~conn[c].abort
    /\ conn[c].nreq < MaxRequests
    /\ LET out == RelayServiceCall(inner, r)
       IN  /\ req' = [req EXCEPT ![c] = Some(r)]
           /\ resp' = [resp EXCEPT ![c] = IF out.ok THEN Some(out.resp) ELSE None]
           /\ conn' = [conn EXCEPT ![c] =
                         IF ~out.ok THEN Ended([@ EXCEPT !.nreq = @ + 1], "Err")
                         ELSE [@ EXCEPT !.nreq = @ + 1, !.st = AfterResponse(out.resp)]]
           /\ handoff' = [handoff EXCEPT ![c] =
                            IF IsSome(out.spawn)
                            THEN [NoHandoff EXCEPT !.st = "Waiting", !.protocol = out.spawn]
                            ELSE @]
    /\ UNCHANGED <<config_vars, relay_server, cancelled, sup, set, events, shutdown_calls>>
\* The engine has written the 101 and surrenders the transport with its read
\* buffer: the upgrade completes and serve_connection returns Ok.
EngineUpgraded(c, read_buf) ==
    /\ conn[c].st = "Responding101"
    /\ ~conn[c].abort
    /\ IsPrefix(read_buf, handoff[c].wire)
    /\ conn' = [conn EXCEPT ![c] = Ended(@, "Ok")]
    /\ handoff' = [handoff EXCEPT ![c] =
                     IF @.st = "Waiting"
                     THEN [@ EXCEPT !.st = "Upgraded", !.read_buf = read_buf,
                                    !.wire = SubSeq(@, Len(read_buf) + 1, Len(@)),
                                    !.out = Append(@, "101")]
                     ELSE @]
    /\ UNCHANGED <<config_vars, relay_server, cancelled, sup, set, req, resp, events, shutdown_calls>>
\* The peer goes away: cleanly between two requests (serve_connection returns
\* Ok), or in the middle of the handshake, a request or the 101 (an error).
PeerDisconnect(c, clean) ==
    /\ conn[c].st \in TaskStates
    /\ ~conn[c].abort
    /\ clean => conn[c].st = "Http"
    /\ conn' = [conn EXCEPT ![c] = Ended(@, IF clean THEN "Ok" ELSE "Err")]
    /\ handoff' = [handoff EXCEPT ![c] = UpgradeFailed(@)]
    /\ UNCHANGED <<config_vars, relay_server, cancelled, sup, set, req, resp, events, shutdown_calls>>

(***************************************************************************)
(* The continuation spawned by the upgrade, detached from the JoinSet:     *)
(* hyper::upgrade::on, then Protocol::relay_connection_handler.            *)
(***************************************************************************)
\* A downcast that forgets the engine's read buffer.
DowncastDropsReadBuf(h) == [io |-> h.wire, read_buf |-> ""]
downcast_upgrade(h) == [io |-> h.wire, read_buf |-> h.read_buf]
\* A handler that accepts every transport as a plain relay stream.
AcceptsAsRelay(h) ==
    IF h.read_buf # ""
    THEN [h EXCEPT !.st = "Err", !.wire = ""]
    ELSE [h EXCEPT !.st = "Session", !.accepted = Some("Relay")]
\* A handler that goes on with buffered data.
AcceptsBufferedData(h) == [h EXCEPT !.st = "Session", !.accepted = h.protocol]
\* ensure!(read_buf.is_empty()), then conn_handler.accept(self, io); on the
\* error the transport is dropped with the continuation.
relay_connection_handler(h) ==
    LET parts == downcast_upgrade(h)
    IN  IF parts.read_buf # ""
        THEN [h EXCEPT !.st = "Err", !.wire = ""]
        ELSE [h EXCEPT !.st = "Session", !.accepted = h.protocol, !.wire = parts.io]
\* A continuation that does not wait for the upgrade.
UpgradeNotAwaited(h) == h.st \in {"Waiting", "Upgraded"}
\* hyper::upgrade::on(&mut req).await returned Ok(upgraded)
UpgradeResolved(h) == h.st = "Upgraded"
HandoffUpgraded(c) ==
    /\ UpgradeResolved(handoff[c])
    /\ handoff' = [handoff EXCEPT ![c] = relay_connection_handler(@)]
    /\ UNCHANGED <<config_vars, relay_server, cancelled, sup, set, conn, req, resp, events, shutdown_calls>>
\* The peer writes its next byte on the connection it asked to upgrade.
PeerWrite(c) ==
    /\ handoff[c].st \in {"Waiting", "Upgraded", "Session"}
    /\ Len(handoff[c].sent) < Len(PeerBytes)
    /\ LET byte == SubSeq(PeerBytes, Len(handoff[c].sent) + 1, Len(handoff[c].sent) + 1)
       IN  handoff' = [handoff EXCEPT ![c].sent = @ \o byte, ![c].wire = @ \o byte]
    /\ UNCHANGED <<config_vars, relay_server, cancelled, sup, set, conn, req, resp, events, shutdown_calls>>
\* The relay session reads the next byte of the transport it was handed.
SessionRead(c) ==
    /\ handoff[c].st = "Session"
    /\ handoff[c].wire # ""
    /\ handoff' = [handoff EXCEPT ![c].read = @ \o SubSeq(handoff[c].wire, 1, 1),
                                  ![c].wire = SubSeq(@, 2, Len(@))]
    /\ UNCHANGED <<config_vars, relay_server, cancelled, sup, set, conn, req, resp, events, shutdown_calls>>
\* The relay session writes a frame to the peer.
SessionWrite(c) ==
    /\ handoff[c].st = "Session"
    /\ \A i \in DOMAIN handoff[c].out : handoff[c].out[i] # "frame"
    /\ handoff' = [handoff EXCEPT ![c].out = Append(@, "frame")]
    /\ UNCHANGED <<config_vars, relay_server, cancelled, sup, set, conn, req, resp, events, shutdown_calls>>
\* conn_handler.accept returns: the relay session is over.
RelaySessionEnd(c, ok) ==
    /\ handoff[c].st = "Session"
    /\ handoff' = [handoff EXCEPT ![c].st = IF ok THEN "Ok" ELSE "Err"]
    /\ UNCHANGED <<config_vars, relay_server, cancelled, sup, set, conn, req, resp, events, shutdown_calls>>

(***************************************************************************)
(* The server with its clients.                                            *)
(***************************************************************************)
Init ==
    /\ builder \in Builders
    /\ given = Pairs(builder.headers)
    /\ spawned = "Pending"
    /\ inner = NoInner
    /\ relay_server = "None"
    /\ cancelled = FALSE
    /\ sup = "NotStarted"
    /\ set = {}
    /\ conn = [c \in ConnIds |-> NoConn]
    /\ req = [c \in ConnIds |-> None]
    /\ resp = [c \in ConnIds |-> None]
    /\ handoff = [c \in ConnIds |-> NoHandoff]
    /\ events = <<>>
    /\ shutdown_calls = 0

Next ==
    \/ \E bind_ok \in BOOLEAN : Spawn(bind_ok)
    \/ Shutdown
    \/ \E c \in ConnIds : ClientConnect(c)
    \/ SupPollCancel
    \/ \E c \in ConnIds : SupAcceptOk(c)
    \/ SupAcceptErr
    \/ SupPark
    \/ SupWake
    \/ \E c \in ConnIds : SupSpawn(c)
    \/ SupCloseRelay
    \/ RelayClosed
    \/ SupShutdownSet
    \/ SupDrained
    \/ \E c \in ConnIds : TaskAborted(c)
    \/ \E c \in ConnIds, outcome \in {"Stream", "Error", "AlpnValidation"} : TlsAccept(c, outcome)
    \/ \E c \in ConnIds, r \in ClientRequests : HttpRequest(c, r)
    \/ \E c \in ConnIds, read_buf \in {"", "x"} : EngineUpgraded(c, read_buf)
    \/ \E c \in ConnIds, clean \in BOOLEAN : PeerDisconnect(c, clean)
    \/ \E c \in ConnIds : HandoffUpgraded(c)
    \/ \E c \in ConnIds, ok \in BOOLEAN : RelaySessionEnd(c, ok)

Spec == Init /\ [][Next]_vars


(***************************************************************************)
(* The service alone: a running server and one plain connection whose      *)
(* task waits for a request; the requests range over every combination of  *)
(* method, path and upgrade headers.                                       *)
(***************************************************************************)
ServiceBuilders ==
    {b \in [secret_key : BOOLEAN,
            tls_config : {None},
            relay_override : {None, Some(DisabledHandler)},
            headers : {<<>>, ServerHeaders},
            handlers : {UserRoutes},
            not_found_fn : {None}] : SpawnEnsure(b)}
\* The values of the Upgrade header: the two tokens, another protocol, a token
\* in another case and a truncated token.
UpgradeValues ==
    {HTTP_UPGRADE_PROTOCOL, WEBSOCKET_UPGRADE_PROTOCOL, "h2c", "WebSocket", "iroh derp"}
ServiceRequests ==
    {Request(m, p, u, k, v) :
        m \in {"GET", "POST"},
        p \in {RELAY_PATH, LEGACY_RELAY_PATH, "/health", "/nope"},
        u \in {None} \cup {Some(h) : h \in UpgradeValues},
        k \in {None, Some(SampleKey), Some(OtherKey)},
        v \in {None, Some(SUPPORTED_WEBSOCKET_VERSION), Some("12")}}
InitService ==
    /\ builder \in ServiceBuilders
    /\ given = Pairs(builder.headers)
    /\ spawned = "Ok"
    /\ inner = InnerOf(builder)
    /\ relay_server = IF builder.secret_key THEN "Running" ELSE "None"
    /\ cancelled = FALSE
    /\ sup = "Select"
    /\ set = {1}
    /\ conn = [c \in ConnIds |->
                 IF c = 1 THEN [NoConn EXCEPT !.st = "Http", !.transport = "Plain"]
                 ELSE NoConn]
    /\ req = [c \in ConnIds |-> None]
    /\ resp = [c \in ConnIds |-> None]
    /\ handoff = [c \in ConnIds |-> NoHandoff]
    /\ events = <<"bind", "accept">>
    /\ shutdown_calls = 0
NextService ==
    \/ \E r \in ServiceRequests : HttpRequest(1, r)
    \/ \E read_buf \in {"", "x", "xy"} : EngineUpgraded(1, read_buf)
    \/ \E clean \in BOOLEAN : PeerDisconnect(1, clean)
    \/ HandoffUpgraded(1)
    \/ PeerWrite(1)
    \/ SessionRead(1)
    \/ SessionWrite(1)
    \/ \E ok \in BOOLEAN : RelaySessionEnd(1, ok)
SpecService == InitService /\ [][NextService]_vars

(***************************************************************************)
(* The builder: ServerBuilder::new, then its methods in any order and any  *)
(* number of times, then spawn; a client of the running server opens one   *)
(* plain connection and sends requests on it.                              *)
(***************************************************************************)
RECURSIVE InsertAll(_, _)
InsertAll(headers, map) ==
    IF map = <<>> THEN headers
    ELSE InsertAll(HeaderMapInsert(headers, Head(map)[1], Head(map)[2]), Tail(map))
\* The header maps given to ServerBuilder::headers; the second one holds two
\* values for one name.
HeaderMaps ==
    {<<<<"x-relay", "a">>>>,
     <<<<"x-relay", "a">>, <<"x-relay", "b">>>>,
     <<<<"x-extra", "c">>>>}
\* A route handler answers 200 with its route as the body, or fails.
RouteHandler(method, path, fail) ==
    [fail |-> fail, status |-> 200, body |-> method \o " " \o path]
RouteKeys == {<<"GET", "/health">>, <<"POST", RELAY_PATH>>, <<"GET", RELAY_PATH>>}
GoneHandler == [fail |-> FALSE, status |-> 410, body |-> "gone"]
BuilderRequests ==
    {Request(m, p, u, None, None) :
        m \in {"GET", "POST"},
        p \in {RELAY_PATH, LEGACY_RELAY_PATH, "/health", "/nope"},
        u \in {None, Some(HTTP_UPGRADE_PROTOCOL)}}

BuilderSecretKey(secret_key) ==
    /\ spawned = "Pending"
    /\ builder' = [builder EXCEPT !.secret_key = secret_key]
    /\ UNCHANGED <<given, spawned, inner, relay_server, cancelled, sup, set, conn_vars,
                   events, shutdown_calls>>
BuilderRequestHandler(method, uri_path, handler) ==
    /\ spawned = "Pending"
    /\ builder' = [builder EXCEPT !.handlers =
                      [k \in DOMAIN @ \cup {<<method, uri_path>>} |->
                          IF k = <<method, uri_path>> THEN handler ELSE @[k]]]
    /\ UNCHANGED <<given, spawned, inner, relay_server, cancelled, sup, set, conn_vars,
                   events, shutdown_calls>>
BuilderNotFoundHandler(handler) ==
    /\ spawned = "Pending"
    /\ builder' = [builder EXCEPT !.not_found_fn = Some(handler)]
    /\ UNCHANGED <<given, spawned, inner, relay_server, cancelled, sup, set, conn_vars,
                   events, shutdown_calls>>
BuilderRelayOverride(handler) ==
    /\ spawned = "Pending"
    /\ builder' = [builder EXCEPT !.relay_override = Some(handler)]
    /\ UNCHANGED <<given, spawned, inner, relay_server, cancelled, sup, set, conn_vars,
                   events, shutdown_calls>>
BuilderHeaders(headers) ==
    /\ spawned = "Pending"
    /\ builder' = [builder EXCEPT !.headers = InsertAll(@, headers)]
    /\ given' = given \cup Pairs(headers)
    /\ UNCHANGED <<spawned, inner, relay_server, cancelled, sup, set, conn_vars,
                   events, shutdown_calls>>

NewBuilder ==
    [secret_key |-> FALSE, tls_config |-> None, relay_override |-> None,
     headers |-> <<>>, handlers |-> <<>>, not_found_fn |-> None]
InitBuilder ==
    /\ builder = NewBuilder
    /\ given = {}
    /\ spawned = "Pending"
    /\ inner = NoInner
    /\ relay_server = "None"
    /\ cancelled = FALSE
    /\ sup = "NotStarted"
    /\ set = {}
    /\ conn = [c \in ConnIds |-> NoConn]
    /\ req = [c \in ConnIds |-> None]
    /\ resp = [c \in ConnIds |-> None]
    /\ handoff = [c \in ConnIds |-> NoHandoff]
    /\ events = <<>>
    /\ shutdown_calls = 0
NextBuilder ==
    \/ \E k \in BOOLEAN : BuilderSecretKey(k)
    \/ \E key \in RouteKeys, fail \in BOOLEAN :
          BuilderRequestHandler(key[1], key[2], RouteHandler(key[1], key[2], fail))
    \/ BuilderNotFoundHandler(GoneHandler)
    \/ BuilderRelayOverride(DisabledHandler)
    \/ \E map \in HeaderMaps : BuilderHeaders(map)
    \/ \E bind_ok \in BOOLEAN : Spawn(bind_ok)
    \/ ClientConnect(1)
    \/ SupPollCancel
    \/ SupAcceptOk(1)
    \/ SupSpawn(1)
    \/ \E r \in BuilderRequests : HttpRequest(1, r)
SpecBuilder == InitBuilder /\ [][NextBuilder]_vars

(***************************************************************************)
(* Fairness: the runtime schedules the supervisor task and drops aborted   *)
(* tasks, and the relay backend's close() terminates.                      *)
(***************************************************************************)
SupStep ==
    \/ SupPollCancel
    \/ \E c \in ConnIds : SupAcceptOk(c)
    \/ SupAcceptErr
    \/ SupPark
    \/ SupWake
    \/ \E c \in ConnIds : SupSpawn(c)
    \/ SupCloseRelay
    \/ SupShutdownSet
    \/ SupDrained
FairSpec ==
    /\ Spec
    /\ WF_vars(SupStep)
    /\ WF_vars(RelayClosed)
    /\ \A c \in ConnIds : WF_vars(TaskAborted(c))


(***************************************************************************)
(* The server whose supervisor task may be aborted through the JoinHandle  *)
(* of Server::task_handle.  The abort takes effect where the task is       *)
(* suspended: in the select, in server.close().await or in                 *)
(* set.shutdown().await.  The future of the task is dropped with what it   *)
(* owns: the listener, the JoinSet (whose drop aborts the tasks of the     *)
(* set) and the relay server, which is dropped without close().  The       *)
(* continuations of the upgrades were started with tokio::task::spawn and  *)
(* belong to no set.                                                       *)
(***************************************************************************)
AbortPoints == {"Parked", "Closing", "Draining"}
AbortSupervisor ==
    /\ spawned = "Ok"
    /\ sup \in AbortPoints
    /\ sup' = "Aborted"
    /\ conn' = [c \in ConnIds |->
                  IF c \in set /\ conn[c].st \in TaskStates
                  THEN [conn[c] EXCEPT !.abort = TRUE] ELSE conn[c]]
    /\ set' = {}
    /\ UNCHANGED <<config_vars, relay_server, cancelled, req, resp, handoff, events,
                   shutdown_calls>>
NextAbort == Next \/ AbortSupervisor
SpecAbort == Init /\ [][NextAbort]_vars


(***************************************************************************)
(* Properties of the shutdown sequence.                                    *)
(***************************************************************************)
\* Positions of an event in the supervisor's log.
Positions(e) == {i \in 1..Len(events) : events[i] = e}
Before(e1, e2) == \A i \in Positions(e1), j \in Positions(e2) : i < j
Happened(e) == Positions(e) # {}
AfterLoop == {"Exited", "Closing", "Closed", "Draining", "Done"}

\* C1: with a relay backend, the shutdown steps happen in this order: the
\* accept loop exits (no accept is taken after it), then the backend's close()
\* is requested and completes, and only then does the drain of the task set start.
C1_ShutdownOrder ==
    HasRelayServer =>
        /\ Before("accept", "loop_exit")
        /\ Happened("close_requested") =>
              Happened("loop_exit") /\ Before("loop_exit", "close_requested")
        /\ Happened("close_completed") =>
              Happened("close_requested") /\ Before("close_requested", "close_completed")
        /\ Happened("drain_started") =>
              Happened("close_completed") /\ Before("close_completed", "drain_started")
        /\ sup \in AfterLoop \ {"Exited"} => Happened("close_requested")
        /\ sup \in {"Draining", "Done"} => Happened("drain_started")
C1_Witness ==
    /\ sup = "Done"
    /\ relay_server = "Closed"
    /\ Happened("accept")
    /\ \E c \in ConnIds : conn[c].st = "Backlog"

\* C2 as stated: once the token is cancelled, no connection task is spawned.
C2_NoSpawnAfterCancel == [][cancelled => set' \subseteq set]_vars
\* C2 amended: once the loop polls the cancellation after the cancel, it exits
\* and no task is spawned from then on; only the iteration that had polled the
\* cancellation before the cancel landed may still accept and spawn.
C2_NoSpawnAfterCancelObserved ==
    [][(cancelled /\ sup \in AfterLoop \cup {"Select"})
          => (set' \subseteq set /\ sup' \in AfterLoop \cup {"Select"})]_vars
C2_Witness ==
    /\ cancelled
    /\ sup = "Done"
    /\ \E c \in ConnIds : conn[c].st = "Backlog"
    /\ \E c \in ConnIds : conn[c].st = "Aborted"

\* C3: once the supervisor task has completed, no connection task spawned by
\* the accept loop is running.
C3_NoTaskAfterDone ==
    sup = "Done" => \A c \in ConnIds : conn[c].st \notin TaskStates \cup {"Accepted"}
C3_Witness ==
    /\ sup = "Done"
    /\ \A c \in ConnIds : conn[c].st = "Aborted"

\* C4: under fair scheduling, and with a close() that terminates, a shutdown()
\* leads to the completion of the supervisor task.
C4_ShutdownCompletes == cancelled ~> (sup = "Done")
C4_Witness ==
    /\ cancelled
    /\ sup = "Done"
    /\ \E c \in ConnIds : conn[c].st = "Aborted" /\ conn[c].nreq = 1
    /\ \E c \in ConnIds : handoff[c].st = "Session"

\* C5: a shutdown() after the first changes nothing but the count of calls, and
\* the relay backend is closed and the task set drained at most once.
C5_ShutdownIdempotent ==
    /\ [](Cardinality(Positions("close_requested")) <= 1
          /\ Cardinality(Positions("drain_started")) <= 1
          /\ Cardinality(Positions("loop_exit")) <= 1)
    /\ [][(cancelled /\ shutdown_calls' # shutdown_calls)
            => UNCHANGED <<builder, given, spawned, inner, relay_server, cancelled, sup, set,
                           conn, req, resp, handoff, events>>]_vars
C5_Witness ==
    /\ shutdown_calls = MaxShutdownCalls
    /\ MaxShutdownCalls >= 2
    /\ sup = "Done"
    /\ relay_server = "Closed"


(***************************************************************************)
(* Properties of the upgrade negotiation.  They are about the last request *)
(* of a connection and the response to it.                                 *)
(***************************************************************************)
Requested(c) == IsSome(req[c])
Answered(c) == IsSome(req[c]) /\ IsSome(resp[c])
LastRequest(c) == Unwrap(req[c])
LastResponse(c) == Unwrap(resp[c])
OnRelayPath(r) == r.path \in {"/relay", "/derp"}
KnownToken(r) == r.upgrade \in {Some("iroh derp http"), Some("websocket")}
WebsocketUpgrade(r) == r.upgrade = Some("websocket")
Connected == inner.relay_handler.kind = "ConnHandler"
StatusIs(c, code) == Answered(c) /\ LastResponse(c).status = code
NoHandoffScheduled(c) == handoff[c] = NoHandoff

\* C6 as stated: a GET on the relay path without a known Upgrade token is
\* answered 400, schedules no continuation and is never handed to accept.
C6_NoUpgradeIs400 ==
    \A c \in ConnIds :
        (Requested(c) /\ LastRequest(c).method = "GET" /\ OnRelayPath(LastRequest(c))
            /\ ~KnownToken(LastRequest(c)))
        => (StatusIs(c, 400) /\ NoHandoffScheduled(c))
\* C6 amended: such a request schedules no continuation and hands nothing to
\* accept; it is answered 400 when the relay handler binding is the
\* ClientConnHandler (an override responder answers as it likes).
C6_NoUpgradeIs400WhenConnected ==
    \A c \in ConnIds :
        (Requested(c) /\ LastRequest(c).method = "GET" /\ OnRelayPath(LastRequest(c))
            /\ ~KnownToken(LastRequest(c)))
        => /\ NoHandoffScheduled(c)
           /\ Connected => StatusIs(c, 400)
C6_Witness ==
    /\ Connected
    /\ Requested(1) /\ LastRequest(1).method = "GET" /\ LastRequest(1).path = "/relay"
    /\ LastRequest(1).upgrade = Some("h2c")
    /\ StatusIs(1, 400)
    /\ conn[1].nreq = 1

\* C7 as stated: a websocket upgrade request on the relay path with another
\* version than the supported one is answered 400 with Sec-WebSocket-Version: 13,
\* whatever its other headers, a missing Sec-WebSocket-Key included.
WrongVersion(r) ==
    /\ r.method = "GET" /\ OnRelayPath(r) /\ WebsocketUpgrade(r)
    /\ IsSome(r.version) /\ r.version # Some("13")
C7_WrongVersionAdvertised ==
    \A c \in ConnIds :
        (Requested(c) /\ WrongVersion(LastRequest(c)))
        => (StatusIs(c, 400) /\ HasHeader(LastResponse(c), "Sec-WebSocket-Version", "13"))
\* C7 amended: this holds of the requests that carry a Sec-WebSocket-Key, under
\* the ClientConnHandler binding; without the key the 400 comes from the key
\* check, before the version is looked at, and carries no version header.
C7_WrongVersionAdvertisedWithKey ==
    \A c \in ConnIds :
        (Requested(c) /\ WrongVersion(LastRequest(c)) /\ Connected)
        => /\ StatusIs(c, 400)
           /\ NoHandoffScheduled(c)
           /\ IsSome(LastRequest(c).key)
                => HeaderValues(LastResponse(c), "Sec-WebSocket-Version") = {"13"}
           /\ ~IsSome(LastRequest(c).key)
                => HeaderValues(LastResponse(c), "Sec-WebSocket-Version") = {}
C7_Witness ==
    /\ Connected
    /\ Requested(1) /\ WrongVersion(LastRequest(1)) /\ LastRequest(1).key = Some(SampleKey)
    /\ StatusIs(1, 400)
    /\ HasHeader(LastResponse(1), "Sec-WebSocket-Version", "13")

\* C8 as stated: a request on the relay path with the websocket token and
\* without Sec-WebSocket-Key or Sec-WebSocket-Version is answered 400 and not
\* handed off; with the relay token the two headers are not needed and their
\* absence causes no 400.
LacksWebsocketHeader(r) ==
    OnRelayPath(r) /\ WebsocketUpgrade(r) /\ (~IsSome(r.key) \/ ~IsSome(r.version))
RelayUpgrade(r) == OnRelayPath(r) /\ r.upgrade = Some("iroh derp http")
C9_AcceptKeyDerivedFromKey ==
    \A c \in ConnIds :
        (Answered(c) /\ WebsocketUpgrade(LastRequest(c)) /\ IsSome(LastRequest(c).key)
            /\ LastRequest(c).version = Some("13") /\ StatusIs(c, 101))
        => /\ HeaderValues(LastResponse(c), "Sec-WebSocket-Accept")
                = {Base64(Sha1(as_bytes(Unwrap(LastRequest(c).key))
                                 \o as_bytes("258EAFA5-E914-47DA-95CA-C5AB0DC85B11")))}
           /\ LastRequest(c).key = Some("dGhlIHNhbXBsZSBub25jZQ==")
                => HeaderValues(LastResponse(c), "Sec-WebSocket-Accept")
                     = {"s3pPLMBiTxaQ9kYGzzhZRbK+xOo="}
C9_Witness ==
    /\ StatusIs(1, 101)
    /\ WebsocketUpgrade(LastRequest(1))
    /\ LastRequest(1).key = Some(OtherKey)
    /\ LastRequest(1).version = Some("13")
    /\ HeaderValues(LastResponse(1), "Sec-WebSocket-Accept") # {}

\* C10: an upgrade is accepted exactly when the answer is 101; the 101 carries
\* the token of the negotiated protocol in Upgrade, and it carries
\* Connection: upgrade and Sec-WebSocket-Accept iff the protocol is websocket.
Token(p) == IF p = "Relay" THEN "iroh derp http" ELSE "websocket"
C10_SwitchingProtocolsResponse ==
    \A c \in ConnIds :
        /\ StatusIs(c, 101) <=> IsSome(handoff[c].protocol)
        /\ IsSome(handoff[c].protocol) =>
              LET p == Unwrap(handoff[c].protocol)
              IN  /\ HeaderValues(LastResponse(c), "upgrade") = {Token(p)}
                  /\ LastRequest(c).upgrade = Some(Token(p))
                  /\ HasHeader(LastResponse(c), "connection", "upgrade") <=> p = "Websocket"
                  /\ HeaderValues(LastResponse(c), "Sec-WebSocket-Accept") # {}
                        <=> p = "Websocket"
C10_Witness ==
    /\ StatusIs(1, 101)
    /\ handoff[1].protocol = Some("Relay")
    /\ handoff[1].st = "Session"
    /\ HeaderValues(LastResponse(1), "upgrade") = {"iroh derp http"}
    /\ HeaderValues(LastResponse(1), "connection") = {}


(***************************************************************************)
(* Properties of the configured server: default headers, routing, spawn.   *)
(***************************************************************************)
RelayGet(r) == r.method = "GET" /\ OnRelayPath(r)
RouteMatched(r) == ~RelayGet(r) /\ <<r.method, r.path>> \in DOMAIN inner.handlers
\* The responses the server builds itself: those of the upgrade negotiation
\* (400 and 101) and the default 404.
CoreOriginated(c) ==
    /\ Answered(c)
    /\ \/ RelayGet(LastRequest(c)) /\ Connected
       \/ /\ ~RelayGet(LastRequest(c)) /\ ~RouteMatched(LastRequest(c))
          /\ inner.not_found_fn.kind = "Default"

\* C11: every (name, value) pair passed to ServerBuilder::headers, in one map
\* with several values for a name or over several calls, is a header of every
\* response the server builds itself (400, default 404, 101).
C11_EveryGivenHeaderIncluded ==
    \A c \in ConnIds : \A pair \in given :
        CoreOriginated(c) => HasHeader(LastResponse(c), pair[1], pair[2])


\* C16 as stated: a request on a relay path with another method than GET is
\* answered 404, whatever user routes are registered.
C16_NonGetRelayPathIs404 ==
    \A c \in ConnIds :
        (Requested(c) /\ OnRelayPath(LastRequest(c)) /\ LastRequest(c).method # "GET")
        => StatusIs(c, 404)
\* C16 amended: such a request never reaches the relay handler and schedules
\* no handoff; it is routed like a request on any other path, and is answered
\* 404 "Not Found" when no user route has its (method, path) and no user
\* not-found handler was set.
C16_NonGetRelayPathIsRouted ==
    \A c \in ConnIds :
        (Requested(c) /\ OnRelayPath(LastRequest(c)) /\ LastRequest(c).method # "GET")
        => /\ NoHandoffScheduled(c)
           /\ ~StatusIs(c, 400) /\ ~StatusIs(c, 101)
           /\ (<<LastRequest(c).method, LastRequest(c).path>> \notin DOMAIN builder.handlers
                 /\ ~IsSome(builder.not_found_fn))
              => (StatusIs(c, 404) /\ LastResponse(c).body = "Not Found")
C16_Witness ==
    /\ Requested(1) /\ LastRequest(1).method = "POST" /\ LastRequest(1).path = "/relay"
    /\ LastRequest(1).upgrade = Some("iroh derp http")
    /\ <<"POST", "/relay">> \in DOMAIN builder.handlers
    /\ builder.secret_key
    /\ StatusIs(1, 200) /\ LastResponse(1).body = "POST /relay"

\* C17: a request that is not a GET on a relay path is answered by the
\* responder registered for exactly its (method, path) when there is one, and
\* by no other; otherwise by the not-found responder: the user's when one was
\* set, else the default, which answers 404 with the body "Not Found".
C17_RouteOrNotFound ==
    \A c \in ConnIds :
        (Requested(c) /\ ~RelayGet(LastRequest(c)))
        => LET key == <<LastRequest(c).method, LastRequest(c).path>>
           IN  /\ NoHandoffScheduled(c)
               /\ IF key \in DOMAIN builder.handlers
                  THEN IF builder.handlers[key].fail
                       THEN ~Answered(c) /\ conn[c].st = "Err"
                       ELSE StatusIs(c, 200) /\ LastResponse(c).body = key[1] \o " " \o key[2]
                  ELSE IF IsSome(builder.not_found_fn)
                  THEN StatusIs(c, 410) /\ LastResponse(c).body = "gone"
                  ELSE StatusIs(c, 404) /\ LastResponse(c).body = "Not Found"
C17_Witness ==
    /\ Requested(1) /\ LastRequest(1).method = "POST" /\ LastRequest(1).path = "/health"
    /\ DOMAIN builder.handlers = {<<"GET", "/health">>, <<"POST", "/relay">>}
    /\ IsSome(builder.not_found_fn)
    /\ StatusIs(1, 410)

\* C18: no failure of a connection stops the server: a step in which a
\* connection task or a relay session ends, with or without an error, and an
\* accept that returns an error, leave the supervisor in its accept loop; the
\* supervisor leaves the loop only when shutdown was signalled.
InLoop == {"Select", "PollAccept", "Parked", "Spawn"}
ConnectionEnds(c) ==
    \/ conn[c].st \in TaskStates /\ conn'[c].st \in EndStates
    \/ handoff[c].st # handoff'[c].st /\ handoff'[c].st \in {"Err", "UpgradeErr", "Ok"}
C18_FailuresDoNotStopServer ==
    /\ []((spawned = "Ok" /\ ~cancelled) => sup \in InLoop)
    /\ [](sup \in AfterLoop => cancelled)
    /\ [][(\E c \in ConnIds : ConnectionEnds(c)) => sup' = sup]_vars
    /\ [][(sup = "PollAccept" /\ sup' # "Spawn" /\ ~cancelled) => sup' \in InLoop]_vars
C18_Witness ==
    /\ ~cancelled
    /\ conn[1].st = "Err" /\ conn[1].nreq = 0
    /\ sup = "Spawn" /\ conn[2].st = "Accepted"

\* C19: given that the bind succeeds, spawn fails if and only if neither a
\* secret key nor a relay override was configured; in that case no listener is
\* bound, no relay backend is created and no supervisor task is spawned.
C19_SpawnFailsIffUnconfigured ==
    spawned # "Pending"
    => IF builder.secret_key \/ IsSome(builder.relay_override)
       THEN \/ spawned = "Ok" /\ Happened("bind") /\ sup # "NotStarted"
            \/ spawned = "Err" /\ ~Happened("bind") /\ inner # NoInner /\ sup = "NotStarted"
       ELSE /\ spawned = "Err"
            /\ events = <<>>
            /\ relay_server = "None"
            /\ sup = "NotStarted"
            /\ inner = NoInner
            /\ \A c \in ConnIds : conn[c] = NoConn
C19_Witness ==
    /\ spawned = "Err"
    /\ ~builder.secret_key /\ ~IsSome(builder.relay_override)
    /\ builder.headers # <<>>
    /\ DOMAIN builder.handlers # {}

(***************************************************************************)
(* Properties of the handoff of an upgraded connection.                    *)
(***************************************************************************)
Accepted(c) == IsSome(handoff[c].accepted)

\* C12: when the HTTP engine surrenders a non-empty read buffer with the
\* upgraded transport, accept is never invoked for the connection: the
\* continuation ends with an error and the transport is dropped.
C12_BufferedDataNeverAccepted ==
    \A c \in ConnIds :
        handoff[c].read_buf # ""
        => /\ ~Accepted(c)
           /\ handoff[c].st \in {"Upgraded", "Err"}
           /\ handoff[c].read = ""
           /\ handoff[c].st = "Err" => handoff[c].wire = ""
C12_Witness ==
    /\ handoff[1].st = "Err"
    /\ handoff[1].read_buf = "x"
    /\ handoff[1].sent = "xy"
    /\ ~Accepted(1)

\* C13: when the engine surrendered an empty read buffer, the bytes the relay
\* session reads from the transport are the bytes the peer wrote after its
\* upgrade request, in order: what was read followed by what is still unread
\* is what was sent.
C13_HandoffRoundTrip ==
    \A c \in ConnIds :
        Accepted(c)
        => /\ handoff[c].read_buf = ""
           /\ handoff[c].read \o handoff[c].wire = handoff[c].sent
C13_Witness ==
    /\ Accepted(1)
    /\ handoff[1].st = "Session"
    /\ handoff[1].read = "xy"
    /\ handoff[1].out = <<"101">>

\* C14: accept is invoked only after the engine has emitted the 101 and
\* completed the upgrade, so the peer receives the 101 before any byte of the
\* relay session, although the continuation exists before the 101 is returned.
C14_SwitchBeforeSession ==
    \A c \in ConnIds :
        /\ Accepted(c) => (StatusIs(c, 101) /\ conn[c].st = "Ok")
        /\ (Accepted(c) \/ handoff[c].out # <<>>) => handoff[c].out[1] = "101"
        /\ handoff[c].st = "Waiting" => handoff[c].out = <<>>
C14_Witness ==
    /\ Accepted(1)
    /\ handoff[1].out = <<"101", "frame">>

TlsConfigured == IsSome(builder.tls_config)
C20_ServiceOnlyAfterHandshake ==
    /\ [](TlsConfigured =>
            \A c \in ConnIds :
                /\ conn[c].transport # "Plain"
                /\ conn[c].st \in {"Http", "Responding101"} => conn[c].transport = "Tls"
                /\ conn[c].st \in {"Accepted", "Tls"} => (conn[c].nreq = 0 /\ req[c] = None))
    /\ [][TlsConfigured =>
            \A c \in ConnIds :
                /\ req'[c] # req[c] => (conn[c].st = "Http" /\ conn[c].transport = "Tls")
                /\ conn'[c].nreq # conn[c].nreq =>
                      (conn[c].st = "Http" /\ conn[c].transport = "Tls")
                /\ (conn[c].st = "Tls" /\ conn'[c].st \in EndStates) =>
                      (conn'[c].nreq = 0 /\ req'[c] = None /\ handoff'[c] = NoHandoff)
                /\ (conn[c].st = "Tls" /\ conn'[c].st = "Ok") =>
                      builder.tls_config = Some("LetsEncrypt")]_vars
C20_Witness ==
    /\ builder.tls_config = Some("LetsEncrypt")
    /\ conn[1].st = "Ok" /\ conn[1].nreq = 0
    /\ conn[2].st = "Http" /\ conn[2].transport = "Tls" /\ conn[2].nreq = 1

(***************************************************************************)
(* Properties of the relay handler binding.                                *)
(***************************************************************************)
OverrideBound == spawned = "Ok" /\ inner.relay_handler.kind = "Override"
\* What the override responder makes of the builder of default_response.
OverrideResponse ==
    WithBody(WithStatus(WithHeaders(ResponseBuilder, inner.headers),
                        inner.relay_handler.f.status),
             body_full(inner.relay_handler.f.body))

\* C21: under the Override binding every GET on a relay path is answered by
\* the override responder's plain response whatever its Upgrade headers are, no
\* continuation is scheduled, accept is never invoked, and the shutdown
\* sequence skips the close of the relay backend.
C21_OverrideBinding ==
    OverrideBound =>
        /\ \A c \in ConnIds :
              /\ (Answered(c) /\ RelayGet(LastRequest(c))) =>
                    LastResponse(c) = OverrideResponse
              /\ (Requested(c) /\ RelayGet(LastRequest(c))) => IsSome(resp[c])
              /\ NoHandoffScheduled(c)
              /\ ~Accepted(c)
        /\ relay_server = "None"
        /\ ~Happened("close_requested")
        /\ ~Happened("close_completed")
C21_Witness ==
    /\ OverrideBound
    /\ sup = "Done"
    /\ Requested(1) /\ RelayUpgrade(LastRequest(1)) /\ StatusIs(1, 200)
    /\ Requested(2) /\ OnRelayPath(LastRequest(2)) /\ WebsocketUpgrade(LastRequest(2))
    /\ StatusIs(2, 200)

(***************************************************************************)
(* Properties of an abort of the supervisor task.                          *)
(***************************************************************************)
\* The abort has reached every task it was propagated to.
AbortTookEffect ==
    /\ sup = "Aborted"
    /\ \A c \in ConnIds : ~(conn[c].abort /\ conn[c].st \in TaskStates)

\* C22: once an abort of the supervisor task has taken effect, no connection
\* task, no handoff continuation and no relay backend task is running.
C22_AbortStopsEveryTask ==
    AbortTookEffect =>
        /\ \A c \in ConnIds : conn[c].st \notin TaskStates
        /\ \A c \in ConnIds : handoff[c].st \notin {"Waiting", "Upgraded", "Session"}
        /\ relay_server \notin {"Running", "Closing"}

(***************************************************************************)
(* Properties of the protocol tag.                                         *)
(***************************************************************************)
\* C23: the protocol passed to accept for a connection is the variant parsed
\* from the Upgrade header of that connection's upgrade request, whose token
\* the 101 of that connection echoes; two connections upgrading at the same
\* time keep their own tags.
C23_AcceptedProtocolIsRequested ==
    \A c \in ConnIds :
        Accepted(c) =>
            /\ Requested(c) /\ IsSome(LastRequest(c).upgrade)
            /\ handoff[c].accepted = parse_header(Unwrap(LastRequest(c).upgrade))
            /\ StatusIs(c, SWITCHING_PROTOCOLS)
            /\ HeaderValues(LastResponse(c), "upgrade")
                  = {upgrade_header(Unwrap(handoff[c].accepted))}
C23_Witness ==
    /\ handoff[1].st = "Session" /\ handoff[1].accepted = Some("Websocket")
    /\ handoff[2].st = "Session" /\ handoff[2].accepted = Some("Relay")
    /\ LastRequest(1).path = LEGACY_RELAY_PATH
    /\ LastRequest(2).path = RELAY_PATH

\* C24: parse_header inverts upgrade_header on both variants, the two tokens
\* differ, and parse_header gives None for every header value that is not
\* exactly one of the two tokens.
C24_ParseHeaderRoundTrip ==
    /\ \A p \in Protocol : parse_header(upgrade_header(p)) = Some(p)
    /\ upgrade_header("Relay") # upgrade_header("Websocket")
    /\ \A c \in ConnIds :
          (Requested(c) /\ IsSome(LastRequest(c).upgrade)) =>
              LET header == Unwrap(LastRequest(c).upgrade)
              IN  /\ \A p \in Protocol :
                        parse_header(header) = Some(p) <=> header = upgrade_header(p)
                  /\ header \notin {upgrade_header(p) : p \in Protocol}
                        => parse_header(header) = None
C24_Witness ==
    /\ Connected
    /\ Requested(1) /\ RelayGet(LastRequest(1))
    /\ LastRequest(1).upgrade = Some("WebSocket")
    /\ parse_header("WebSocket") = None
    /\ StatusIs(1, BAD_REQUEST)

(***************************************************************************)
(* Properties of the biased select.                                        *)
(***************************************************************************)
\* C25: an iteration of the accept loop that finds the token cancelled while a
\* connection is ready leaves the loop by the cancellation branch; the ready
\* connection is not accepted and no task is spawned for it, then or later.
C25_CancellationBranchWins ==
    /\ [][(sup = "Select" /\ cancelled /\ AcceptReady /\ sup' # sup)
            => (sup' = "Exited" /\ conn' = conn /\ set' = set)]_vars
    /\ [](sup \in AfterLoop =>
            \A c \in ConnIds : conn[c].st # "Accepted")
    /\ [][(sup \in AfterLoop) =>
            \A c \in ConnIds : conn[c].st = "Backlog" => conn'[c].st = "Backlog"]_vars
C25_Witness ==
    /\ cancelled
    /\ sup = "Exited"
    /\ \A c \in ConnIds : conn[c].st = "Backlog"
    /\ set = {}

(***************************************************************************)
(* Properties of the upgrade state machine of a connection.                *)
(***************************************************************************)
\* The connection was answered 400 on the relay path.
Rejected400(c) == Requested(c) /\ RelayGet(LastRequest(c)) /\ StatusIs(c, BAD_REQUEST)

RelayKeys == {<<"GET", RELAY_PATH>>, <<"GET", LEGACY_RELAY_PATH>>}

\* C27 as stated: the user route map never holds a key of a GET on a relay
\* path, and such a request is never answered by a user responder.
C27_NoRelayKeyInRoutes ==
    /\ RelayKeys \cap DOMAIN builder.handlers = {}
    /\ spawned = "Ok" => RelayKeys \cap DOMAIN inner.handlers = {}
\* C27 amended: request_handler stores such a key like any other, but a GET
\* on a relay path is always answered by the relay handler binding: by the
\* upgrade negotiation (400 or 101) or by the override, never by the
\* responder the route map holds for the key.
C27_RelayGetNeverRouted ==
    \A c \in ConnIds :
        (Requested(c) /\ RelayGet(LastRequest(c))) =>
            /\ Answered(c)
            /\ LastResponse(c).body
                  # body_full(LastRequest(c).method \o " " \o LastRequest(c).path)
            /\ Connected => LastResponse(c).status \in {BAD_REQUEST, SWITCHING_PROTOCOLS}
            /\ ~Connected => LastResponse(c) = OverrideResponse
C27_Witness ==
    /\ <<"GET", RELAY_PATH>> \in DOMAIN inner.handlers
    /\ Connected
    /\ Requested(1) /\ LastRequest(1).method = "GET" /\ LastRequest(1).path = RELAY_PATH
    /\ StatusIs(1, BAD_REQUEST)

(***************************************************************************)
(* Properties of the handoff continuations during the shutdown.            *)
(***************************************************************************)
\* C28: accept is never invoked once the relay backend's close() has
\* completed, and no handoff continuation is running once the supervisor task
\* has resolved.
C28_NoAcceptAfterClose ==
    /\ [][\A c \in ConnIds :
            (Accepted(c)' /\ ~Accepted(c)) => relay_server # "Closed"]_vars
    /\ [](sup = "Done" =>
            \A c \in ConnIds : handoff[c].st \notin {"Waiting", "Upgraded", "Session"})

(***************************************************************************)
(* Properties of the number of occurrences of the default headers.         *)
(***************************************************************************)
\* The number of entries of the response that equal the entry.
Occurrences(response, entry) ==
    Cardinality({i \in 1..Len(response.headers) : response.headers[i] = entry})

\* C29: every response the server builds itself, the default 404 included,
\* holds each configured default header exactly once.
C29_DefaultHeadersOnce ==
    \A c \in ConnIds :
        CoreOriginated(c) =>
            \A i \in 1..Len(inner.headers) :
                Occurrences(LastResponse(c), <<HeaderName(inner.headers[i][1]),
                                               inner.headers[i][2]>>) = 1

\* C30: the service holds one relay handler binding, and with both a secret
\* key and a relay override configured it is the ClientConnHandler one: the
\* relay backend exists, a GET on a relay path goes through the upgrade
\* negotiation, and the override responder is never the one that answers.
BothConfigured == builder.secret_key /\ IsSome(builder.relay_override)
=============================================================================
